---- MODULE Spec2Model ----
(***************************************************************************)
(* AWDLSTMEncoder of open_seq2seq/encoders/lm_encoders.py as a state       *)
(* machine.                                                                *)
(*                                                                         *)
(* Encode  is one call of AWDLSTMEncoder.encode: the lazy one-time setup   *)
(*         of the facade, then _encode building the output projection, the *)
(*         embedding table, the cell stack, the helper and the decoder,    *)
(*         and the initial values of the dynamic_decode loop.              *)
(* Step    is one iteration of the dynamic_decode loop (BasicDecoder.step  *)
(*         followed by the loop's bookkeeping).                            *)
(* Finish  is the loop's exit and the assembly of output_dict.             *)
(*                                                                         *)
(* Tensors are kept at the granularity the encoder's behaviour depends on: *)
(* a logits row is the 1-tuple of its argmax token (the all-zero row is the *)
(* empty tuple), the recurrent state of                                    *)
(* a batch element by the number of cell updates it has absorbed, the      *)
(* stacked outputs by their number of timesteps and the row written last.  *)
(* Weight matrices are explicit (rows of small integers), keep             *)
(* probabilities are percentages.                                          *)
(***************************************************************************)
EXTENDS Integers, Sequences, FiniteSets, TLC

\* ---------------------------------------------------------------- bounds
BatchSize == 2
VocabSize == 2
MaxTime == 2
MaxCalls == 2
MaxEmitStep == 2
MaxLayers == 3

\* ------------------------------------------------------ program constants
InferMaximumIterations == 200
DefaultNumTokensGen == 1
FullKeepProb == 100

Batch == 1..BatchSize
Tokens == 0..(VocabSize - 1)
InitSeeds == {0, 1}

NoKey == "absent"
NoVar == <<>>
ZeroRow == <<>>
EmptyDict == "{}"

\* ---------------------------------------------------------------- state
VARIABLES
  mode,                 \* self._mode
  params,               \* self._params
  model_params,         \* self._model.params (present: the encoder has a model)
  compiled,             \* self._compiled
  source_sequence,      \* input_dict['source_tensors'][0], batch major
  source_length,        \* input_dict['source_tensors'][1]
  kernel,               \* the "dense/kernel" variable of self._output_layer
  EncoderEmbeddingMatrix, \* the independent embedding variable
  enc_emb_w,            \* self._enc_emb_w, the table every lookup reads
  fwd_cells,            \* the cells of self._encoder_cell_fw
  maximum_iterations,   \* bound handed to dynamic_decode
  pc,                   \* "idle", "run", "done", "error"
  error,                \* exception raised by the last call
  time,                 \* loop variable of dynamic_decode
  inputs,               \* next_inputs
  state,                \* cell-stack state
  finished,             \* accumulated finished mask
  sequence_lengths,     \* per-element lengths recorded by the loop
  outputs_size,         \* number of rows written to outputs_ta
  last_outputs,         \* the row written last (rnn_output, sample_id)
  emitted,              \* history: element has sampled end_token
  calls,                \* history: number of encode calls made
  call_budget,          \* number of encode calls the caller makes
  setup_log,            \* history: setup steps performed by the last call
  output_dict,          \* the record returned by _encode
  run_inputs,           \* history: inputs the cell stack consumed this run
  run_logits,           \* history: rows of logits produced this run
  prev_run              \* history: the run completed before this call

vars == <<mode, params, model_params, compiled, source_sequence,
          source_length, kernel, EncoderEmbeddingMatrix, enc_emb_w,
          fwd_cells, maximum_iterations, pc, error, time, inputs, state,
          finished, sequence_lengths, outputs_size, last_outputs, emitted,
          calls, call_budget, setup_log, output_dict, run_inputs,
          run_logits, prev_run>>

loop_vars == <<time, inputs, state, finished, sequence_lengths,
               outputs_size, last_outputs, emitted>>

\* ------------------------------------------------------- small helpers
Max(a, b) == IF a >= b THEN a ELSE b
Min(a, b) == IF a <= b THEN a ELSE b

RECURSIVE reduce_max_upto(_, _)
reduce_max_upto(f, n) ==
  IF n = 0 THEN 0 ELSE Max(f[n], reduce_max_upto(f, n - 1))

RECURSIVE reduce_min_upto(_, _)
reduce_min_upto(f, n) ==
  IF n = 1 THEN f[1] ELSE Min(f[n], reduce_min_upto(f, n - 1))

reduce_max(f) == reduce_max_upto(f, BatchSize)
reduce_min(f) == reduce_min_upto(f, BatchSize)

reduce_all(f) == \A b \in Batch : f[b]

\* tf.transpose of a non-empty matrix kept as a sequence of rows
Transpose(m) ==
  [j \in 1..Len(m[1]) |-> [i \in 1..Len(m) |-> m[i][j]]]

\* outcome of a variable initializer for a rows x cols variable under a
\* graph seed
InitializerValue(seed, rows, cols) ==
  [i \in 1..rows |-> [j \in 1..cols |-> 1 + ((i + j + seed) % 2)]]

\* tf.nn.dropout: keep_prob 1 returns x itself; otherwise an element is
\* dropped to 0 or scaled by 1/keep_prob
dropout(x, keep_prob, mask) ==
  IF keep_prob = FullKeepProb THEN x
  ELSE [i \in 1..Len(x) |-> [j \in 1..Len(x[1]) |->
          IF mask[i][j] THEN (x[i][j] * FullKeepProb) \div keep_prob
          ELSE 0]]

DropoutMasks(rows, cols, keep_prob) ==
  IF keep_prob = FullKeepProb
  THEN {[i \in 1..rows |-> [j \in 1..cols |-> TRUE]]}
  ELSE [1..rows -> [1..cols -> BOOLEAN]]

\* tf.nn.embedding_lookup: the table row of a token id
embedding_lookup(table, id) == table[id + 1]

\* ------------------------------------------------- configuration readers
\* __init__: the attributes copied from params
weight_tied == params.weight_tied
schedule_learning == params.schedule_learning
sampling_prob == params.sampling_prob
emb_size == params.emb_size
vocab_size == params.vocab_size

\* __init__: num_tokens_gen is read from params in infer mode only
num_tokens_gen ==
  IF mode = "infer"
  THEN (IF params.num_tokens_gen = <<>> THEN DefaultNumTokensGen
        ELSE params.num_tokens_gen[1])
  ELSE DefaultNumTokensGen

\* _encode: keep probabilities are the configured ones in train mode only
\* mutant: the configured embedding keep probability in every mode
emb_keep_prob_in_every_mode == params.encoder_emb_keep_prob
emb_keep_prob ==
  IF mode = "train" THEN params.encoder_emb_keep_prob ELSE FullKeepProb
dp_input_keep_prob ==
  IF mode = "train" THEN params.encoder_dp_input_keep_prob ELSE FullKeepProb
dp_output_keep_prob ==
  IF mode = "train" THEN params.encoder_dp_output_keep_prob ELSE FullKeepProb
last_input_keep_prob ==
  IF mode = "train" THEN params.encoder_last_input_keep_prob ELSE FullKeepProb
last_output_keep_prob ==
  IF mode = "train" THEN params.encoder_last_output_keep_prob ELSE FullKeepProb

\* ------------------------------------------------------ facade: setup
AbsentRegularizer ==
  [kind |-> "absent", factory |-> "none", args |-> "none", wrapped |-> FALSE]
RegularizerFactory(f) ==
  [kind |-> "factory", factory |-> f, args |-> "none", wrapped |-> FALSE]

\* encode: the model's regularizer is copied when the encoder has none
NeedsCopyDown(p) ==
  /\ p.regularizer.kind = "absent"
  /\ model_params.present
  /\ model_params.regularizer.kind # "absent"

\* encode: the first assignment of the copy-down
CopyRegularizer(p) ==
  IF NeedsCopyDown(p)
  THEN [p EXCEPT !.regularizer = model_params.regularizer]
  ELSE p

\* encode: the second assignment indexes the model's regularizer_params
CopyDownRaises(p) ==
  NeedsCopyDown(p) /\ model_params.regularizer_params = NoKey

CopyRegularizerParams(p) ==
  IF NeedsCopyDown(p)
  THEN [CopyRegularizer(p) EXCEPT
          !.regularizer_params = model_params.regularizer_params]
  ELSE p

\* encode: the regularizer is built from regularizer_params (default {}),
\* and wrapped by mp_regularizer_wrapper when dtype is 'mixed'
InstantiateRegularizer(p) ==
  IF p.regularizer.kind # "absent"
  THEN [p EXCEPT !.regularizer =
          [kind |-> "instance",
           factory |-> p.regularizer.factory,
           args |-> IF p.regularizer_params = NoKey THEN EmptyDict
                    ELSE p.regularizer_params,
           wrapped |-> (p.dtype = "mixed")]]
  ELSE p

\* encode: 'mixed' becomes tf.float16
CoerceDtype(p) ==
  IF p.dtype = "mixed" THEN [p EXCEPT !.dtype = "tf.float16"] ELSE p

\* encode: everything under "if not self._compiled", as
\* [params, raised, log]; a KeyError leaves the first assignment in place
Setup(p) ==
  IF compiled
  THEN [params |-> p, raised |-> FALSE, log |-> {}]
  ELSE IF CopyDownRaises(p)
  THEN [params |-> CopyRegularizer(p), raised |-> TRUE,
        log |-> {"copy_regularizer"}]
  ELSE LET p1 == CopyRegularizerParams(p)
           p2 == InstantiateRegularizer(p1)
           p3 == CoerceDtype(p2)
       IN [params |-> p3, raised |-> FALSE,
           log |-> (IF NeedsCopyDown(p)
                    THEN {"copy_regularizer", "copy_regularizer_params"}
                    ELSE {})
                   \cup (IF p1.regularizer.kind # "absent"
                         THEN {"instantiate"} ELSE {})
                   \cup (IF p2.regularizer.wrapped THEN {"wrap"} ELSE {})
                   \cup (IF p2.dtype = "mixed" THEN {"coerce"} ELSE {})]

\* ------------------------------------------------ _encode: graph build
\* _encode: the spec of the last cell
last_cell_params ==
  IF weight_tied THEN params.last_cell_params ELSE params.core_cell_params

\* single_cell(...) for a body cell and for the last cell
BodyCell ==
  [cell_params |-> params.core_cell_params,
   dp_input_keep_prob |-> dp_input_keep_prob,
   dp_output_keep_prob |-> dp_output_keep_prob]
LastCell ==
  [cell_params |-> last_cell_params,
   dp_input_keep_prob |-> last_input_keep_prob,
   dp_output_keep_prob |-> last_output_keep_prob]

\* mutant: range(encoder_layers) body cells before the last cell
FwdCellsAfterEncoderLayersBodyCells ==
  [i \in 1..params.encoder_layers |-> BodyCell] \o <<LastCell>>

\* _encode: range(encoder_layers - 1) body cells, then the last cell
FwdCells ==
  [i \in 1..(Max(params.encoder_layers - 1, 0)) |-> BodyCell]
    \o <<LastCell>>

\* output width of the MultiRNNCell: that of its last cell
CellOutputDim(cells) == cells[Len(cells)].cell_params.num_units

\* rows of the Dense kernel: fixed by the zero probe of width emb_size when
\* weights are tied, by the first real input (the cell output) otherwise
KernelRows ==
  IF weight_tied THEN emb_size ELSE CellOutputDim(FwdCells)

\* mutant: a Dense layer that takes inputs of any width
DenseAcceptsAnyWidth(rows, width) == TRUE

\* a built Dense layer accepts only inputs of its kernel's row count
DenseAccepts(rows, width) == rows = width

\* mutant: an independent embedding matrix even when weights are tied
EmbeddingMatrixAlwaysIndependent(k, e) == e

\* _encode: the embedding matrix before dropout
EmbeddingMatrix(k, e) == IF weight_tied THEN Transpose(k) ELSE e

\* _encode: which helper drives the decoder
Helper ==
  IF mode = "train" \/ mode = "eval"
  THEN (IF schedule_learning THEN "ScheduledEmbeddingTrainingHelper"
        ELSE "TrainingHelper")
  ELSE "GreedyEmbeddingHelper"

\* mutant: the shortest source length bounds the loop
TrainMaximumIterationsMin == reduce_min(source_length)

\* _encode: maximum_iterations of train/eval and of infer
TrainMaximumIterations == reduce_max(source_length)
MaximumIterations ==
  IF mode = "train" \/ mode = "eval" THEN TrainMaximumIterations
  ELSE InferMaximumIterations

\* mutant: dynamic_decode called with impute_finished=True
impute_finished_true == TRUE

\* dynamic_decode is called with impute_finished=False
impute_finished == FALSE

Vectors(v) == [kind |-> "vectors", value |-> v]
Ids(i) == [kind |-> "ids", value |-> i]
ZeroVector == [j \in 1..emb_size |-> 0]

\* what the helper reads at a position of its inputs: the TrainingHelper is
\* given the embedded source (input_vectors), the scheduled helper the raw
\* source_sequence
HelperRead(table, b, pos) ==
  IF Helper = "TrainingHelper"
  THEN Vectors(embedding_lookup(table, source_sequence[b][pos]))
  ELSE Ids(source_sequence[b][pos])
HelperZeroInputs ==
  IF Helper = "TrainingHelper" THEN Vectors(ZeroVector) ELSE Ids(0)

\* helper.initialize(): finished
HelperInitialFinished ==
  IF Helper = "GreedyEmbeddingHelper" THEN [b \in Batch |-> FALSE]
  ELSE [b \in Batch |-> source_length[b] = 0]

\* helper.initialize(): first inputs
HelperInitialInputs(table) ==
  IF Helper = "GreedyEmbeddingHelper"
  THEN [b \in Batch |->
          Vectors(embedding_lookup(table, params.seed_tokens[b]))]
  ELSE IF reduce_all(HelperInitialFinished)
       THEN [b \in Batch |-> HelperZeroInputs]
       ELSE [b \in Batch |-> HelperRead(table, b, 1)]

\* the cell stack takes a batch of float vectors
CellAccepts(inp) == \A b \in Batch : inp[b].kind = "vectors"

\* helper.sample(): TrainingHelper and GreedyEmbeddingHelper take the argmax
HelperSample(argmax) == argmax

\* helper.next_inputs(): finished
HelperFinished(t, sample_ids) ==
  IF Helper = "GreedyEmbeddingHelper"
  THEN [b \in Batch |-> sample_ids[b] = params.end_token]
  ELSE [b \in Batch |-> t + 1 >= source_length[b]]

\* mutant: the TrainingHelper feeds back the sampled ids
HelperNextInputsFromSamples(t, sample_ids) ==
  IF reduce_all(HelperFinished(t, sample_ids))
  THEN (IF Helper = "GreedyEmbeddingHelper"
        THEN HelperInitialInputs(enc_emb_w)
        ELSE [b \in Batch |-> HelperZeroInputs])
  ELSE [b \in Batch |->
          Vectors(embedding_lookup(enc_emb_w, sample_ids[b]))]

\* mutant: the GreedyEmbeddingHelper reads the source sequence
HelperNextInputsFromSource(t, sample_ids) ==
  IF Helper = "GreedyEmbeddingHelper"
  THEN [b \in Batch |->
          Vectors(embedding_lookup(enc_emb_w, source_sequence[b][1]))]
  ELSE (IF reduce_all(HelperFinished(t, sample_ids))
        THEN [b \in Batch |-> HelperZeroInputs]
        ELSE [b \in Batch |-> HelperRead(enc_emb_w, b, t + 2)])

\* helper.next_inputs(): next inputs
HelperNextInputs(t, sample_ids) ==
  IF Helper = "GreedyEmbeddingHelper"
  THEN (IF reduce_all(HelperFinished(t, sample_ids))
        THEN HelperInitialInputs(enc_emb_w)
        ELSE [b \in Batch |->
                Vectors(embedding_lookup(enc_emb_w, sample_ids[b]))])
  ELSE (IF reduce_all(HelperFinished(t, sample_ids))
        THEN [b \in Batch |-> HelperZeroInputs]
        ELSE [b \in Batch |-> HelperRead(enc_emb_w, b, t + 2)])

\* mutant: the finished mask is not accumulated over steps
NextFinishedOfThisStep(t, decoder_finished) ==
  [b \in Batch |-> \/ decoder_finished[b]
                   \/ t + 1 >= maximum_iterations]

\* dynamic_decode: next_finished
NextFinished(t, decoder_finished) ==
  [b \in Batch |-> \/ decoder_finished[b]
                   \/ finished[b]
                   \/ t + 1 >= maximum_iterations]

\* dynamic_decode: next_sequence_lengths
NextSequenceLengths(t) ==
  [b \in Batch |-> IF ~finished[b] THEN t + 1 ELSE sequence_lengths[b]]

\* one application of the cell stack to an element's state
CellUpdate(s) == s + 1
zero_state == [b \in Batch |-> 0]

\* dynamic_decode: the row written and the state kept
Emit(argmax, sample_ids) ==
  [b \in Batch |->
     IF impute_finished /\ finished[b]
     THEN [rnn_output |-> ZeroRow, sample_id |-> 0]
     ELSE [rnn_output |-> <<argmax[b]>>, sample_id |-> sample_ids[b]]]
NextState ==
  [b \in Batch |->
     IF impute_finished /\ finished[b] THEN state[b]
     ELSE CellUpdate(state[b])]

\* the lowest token that is not end_token
NonEndToken ==
  CHOOSE tok \in Tokens \ {params.end_token} :
    \A other \in Tokens \ {params.end_token} : tok <= other

\* runs are recorded when the caller makes more than one encode call
Recording == call_budget > 1

NoRun ==
  [done |-> FALSE, kernel |-> NoVar, matrix |-> NoVar, inputs |-> <<>>,
   logits |-> <<>>]
ThisRun ==
  [done |-> TRUE, kernel |-> kernel, matrix |-> EncoderEmbeddingMatrix,
   inputs |-> run_inputs, logits |-> run_logits]

\* the DropoutWrapper of a cell draws a random mask unless its keep
\* probabilities are 1
CellDeterministic ==
  /\ dp_input_keep_prob = FullKeepProb
  /\ dp_output_keep_prob = FullKeepProb
  /\ last_input_keep_prob = FullKeepProb
  /\ last_output_keep_prob = FullKeepProb

\* the cell stack is about to consume, under the variables of the previous
\* run and from the zero state, the inputs the previous run consumed
RepeatsPrevRun ==
  /\ prev_run.done
  /\ prev_run.kernel = kernel
  /\ prev_run.matrix = EncoderEmbeddingMatrix
  /\ Len(prev_run.inputs) > Len(run_inputs)
  /\ SubSeq(prev_run.inputs, 1, Len(run_inputs) + 1)
       = Append(run_inputs, inputs)

\* the rows of argmax tokens a recorded run draws from
RecordedRows == {[b \in Batch |-> (b + c) % VocabSize] : c \in {0, 1}}

\* what the cell stack and the projection can produce at a step: any row of
\* argmax tokens up to step MaxEmitStep of an infer run, NonEndToken for
\* every element after it; the stack is a function of its variables and of
\* the inputs consumed so far, so a recorded run that repeats the previous
\* one without a random mask produces the previous run's row
CellArgmax(t) ==
  IF mode = "infer" /\ t > MaxEmitStep
  THEN {[b \in Batch |-> NonEndToken]}
  ELSE IF ~Recording THEN [Batch -> Tokens]
  ELSE IF CellDeterministic /\ RepeatsPrevRun
  THEN {prev_run.logits[t + 1]}
  ELSE RecordedRows

NoOutputs == [b \in Batch |-> [rnn_output |-> ZeroRow, sample_id |-> 0]]
NoOutputDict == [built |-> FALSE]

\* ---------------------------------------------------------------- actions
\* the loop variables as dynamic_decode initialises them
LoopInit(first_inputs, first_finished) ==
  /\ time' = 0
  /\ inputs' = first_inputs
  /\ state' = zero_state
  /\ finished' = first_finished
  /\ sequence_lengths' = [b \in Batch |-> 0]
  /\ outputs_size' = 0
  /\ last_outputs' = NoOutputs
  /\ emitted' = [b \in Batch |-> FALSE]

\* _encode, up to the construction of the dynamic_decode loop
Build(seed, mask) ==
  LET k == InitializerValue(seed, KernelRows, vocab_size)
      e == InitializerValue(seed + 1, vocab_size, emb_size)
      table == dropout(EmbeddingMatrix(k, e), emb_keep_prob, mask)
      first_inputs == HelperInitialInputs(table)
      cell_ok == CellAccepts(first_inputs)
      dense_ok == DenseAccepts(KernelRows, CellOutputDim(FwdCells))
  IN /\ kernel' = IF weight_tied \/ cell_ok THEN k ELSE NoVar
     /\ EncoderEmbeddingMatrix' = IF weight_tied THEN NoVar ELSE e
     /\ enc_emb_w' = table
     /\ fwd_cells' = FwdCells
     /\ maximum_iterations' = MaximumIterations
     /\ output_dict' = NoOutputDict
     /\ run_inputs' = <<>>
     /\ run_logits' = <<>>
     /\ LoopInit(first_inputs,
                 [b \in Batch |-> \/ HelperInitialFinished[b]
                                  \/ 0 >= MaximumIterations])
     /\ IF cell_ok /\ dense_ok
        THEN pc' = "run" /\ error' = "none"
        ELSE pc' = "error" /\ error' = "ValueError"

\* AWDLSTMEncoder.encode
Encode ==
  /\ pc \in {"idle", "done", "error"}
  /\ calls < call_budget
  /\ calls' = calls + 1
  /\ prev_run' = IF Recording /\ pc = "done" THEN ThisRun ELSE prev_run
  /\ LET s == Setup(params)
     IN /\ params' = s.params
        /\ setup_log' = s.log
        /\ IF s.raised
           THEN /\ pc' = "error"
                /\ error' = "KeyError"
                /\ UNCHANGED <<compiled, kernel, EncoderEmbeddingMatrix,
                               enc_emb_w, fwd_cells, maximum_iterations,
                               output_dict, run_inputs, run_logits>>
                /\ UNCHANGED loop_vars
           ELSE /\ compiled' = TRUE
                /\ \E seed \in InitSeeds,
                      mask \in DropoutMasks(vocab_size, emb_size,
                                            emb_keep_prob) :
                     Build(seed, mask)
  /\ UNCHANGED <<mode, model_params, source_sequence, source_length,
                 call_budget>>

\* one iteration of the dynamic_decode loop
Step ==
  /\ pc = "run"
  /\ ~reduce_all(finished)
  /\ \E argmax \in CellArgmax(time) :
       LET sample_ids == HelperSample(argmax)
           decoder_finished == HelperFinished(time, sample_ids)
       IN /\ inputs' = HelperNextInputs(time, sample_ids)
          /\ finished' = NextFinished(time, decoder_finished)
          /\ sequence_lengths' = NextSequenceLengths(time)
          /\ last_outputs' = Emit(argmax, sample_ids)
          /\ run_logits' = IF Recording THEN Append(run_logits, argmax)
                           ELSE run_logits
          /\ emitted' = [b \in Batch |->
                           \/ emitted[b]
                           \/ (mode = "infer"
                               /\ sample_ids[b] = params.end_token)]
  /\ run_inputs' = IF Recording THEN Append(run_inputs, inputs)
                   ELSE run_inputs
  /\ state' = NextState
  /\ outputs_size' = time + 1
  /\ time' = time + 1
  /\ UNCHANGED <<mode, params, model_params, compiled, source_sequence,
                 source_length, kernel, EncoderEmbeddingMatrix, enc_emb_w,
                 fwd_cells, maximum_iterations, pc, error, calls,
                 call_budget, setup_log, output_dict, prev_run>>

\* the loop's exit and the assembly of output_dict
Finish ==
  /\ pc = "run"
  /\ reduce_all(finished)
  /\ pc' = "done"
  /\ output_dict' = [built |-> TRUE,
                     timesteps |-> outputs_size,
                     final_state |-> state,
                     final_sequence_lengths |-> sequence_lengths]
  /\ UNCHANGED <<mode, params, model_params, compiled, source_sequence,
                 source_length, kernel, EncoderEmbeddingMatrix, enc_emb_w,
                 fwd_cells, maximum_iterations, error, calls, call_budget,
                 setup_log, run_inputs, run_logits, prev_run>>
  /\ UNCHANGED loop_vars

Next == Encode \/ Step \/ Finish

\* ----------------------------------------------------------- initial states
Params(reg, regp, dtype, emb, layers, cu, lu, ntg, seeds, prob, sched, tied, keep) ==
  [regularizer |-> reg,
   regularizer_params |-> regp,
   dtype |-> dtype,
   vocab_size |-> VocabSize,
   emb_size |-> emb,
   encoder_layers |-> layers,
   core_cell_params |-> [num_units |-> cu],
   last_cell_params |-> [num_units |-> lu],
   end_token |-> 1,
   num_tokens_gen |-> ntg,
   seed_tokens |-> seeds,
   sampling_prob |-> prob,
   schedule_learning |-> sched,
   weight_tied |-> tied,
   encoder_dp_input_keep_prob |-> FullKeepProb,
   encoder_dp_output_keep_prob |-> FullKeepProb,
   encoder_last_input_keep_prob |-> FullKeepProb,
   encoder_last_output_keep_prob |-> FullKeepProb,
   encoder_emb_keep_prob |-> keep]

NoModelParams ==
  [present |-> FALSE, regularizer |-> AbsentRegularizer,
   regularizer_params |-> NoKey]

SourceSequences(T) ==
  {[b \in Batch |-> [t \in 1..T |-> (b + t + s) % VocabSize]] : s \in {0, 1}}

FixedSeeds == [b \in Batch |-> 0]
SeedTokens == {[b \in Batch |-> (b + s) % VocabSize] : s \in {0, 1}}

\* the state of a constructed encoder that has not been called
Constructed(budget) ==
  /\ compiled = FALSE
  /\ kernel = NoVar
  /\ EncoderEmbeddingMatrix = NoVar
  /\ enc_emb_w = NoVar
  /\ fwd_cells = <<>>
  /\ maximum_iterations = 0
  /\ pc = "idle"
  /\ error = "none"
  /\ time = 0
  /\ inputs = [b \in Batch |-> Ids(0)]
  /\ state = zero_state
  /\ finished = [b \in Batch |-> FALSE]
  /\ sequence_lengths = [b \in Batch |-> 0]
  /\ outputs_size = 0
  /\ last_outputs = NoOutputs
  /\ emitted = [b \in Batch |-> FALSE]
  /\ calls = 0
  /\ call_budget = budget
  /\ setup_log = {}
  /\ output_dict = NoOutputDict
  /\ run_inputs = <<>>
  /\ run_logits = <<>>
  /\ prev_run = NoRun

\* train and eval encoders over batches of source sequences
Init ==
  /\ mode \in {"train", "eval"}
  /\ \E sched \in BOOLEAN, prob \in {0, 100} :
       /\ (~sched => prob = 0)
       /\ params = Params(AbsentRegularizer, NoKey, "float32", 1, 2, 1, 1,
                          <<>>, FixedSeeds, prob, sched, FALSE, FullKeepProb)
  /\ model_params = NoModelParams
  /\ \E T \in 1..MaxTime :
       /\ source_sequence \in SourceSequences(T)
       /\ source_length \in [Batch -> 0..T]
  /\ Constructed(1)

Spec == Init /\ [][Next]_vars

\* infer encoders over seed tokens
InitInfer ==
  /\ mode = "infer"
  /\ \E ntg \in {<<>>, <<5>>}, seeds \in SeedTokens :
       params = Params(AbsentRegularizer, NoKey, "float32", 1, 2, 1, 1,
                       ntg, seeds, 0, FALSE, FALSE, FullKeepProb)
  /\ model_params = NoModelParams
  /\ source_sequence \in SourceSequences(1)
  /\ source_length = [b \in Batch |-> 1]
  /\ Constructed(1)

SpecInfer == InitInfer /\ [][Next]_vars

\* encoders over the regularizer and dtype configurations of the facade
InitFacade ==
  /\ mode = "eval"
  /\ \E reg \in {AbsentRegularizer, RegularizerFactory("encoder")},
        regp \in {NoKey, "encoder_regularizer_params"},
        dtype \in {"mixed", "float32"} :
       params = Params(reg, regp, dtype, 1, 2, 1, 1, <<>>, FixedSeeds, 0,
                       FALSE, FALSE, FullKeepProb)
  /\ \/ model_params = NoModelParams
     \/ \E reg \in {AbsentRegularizer, RegularizerFactory("model")},
           regp \in {NoKey, "model_regularizer_params"} :
          model_params = [present |-> TRUE, regularizer |-> reg,
                          regularizer_params |-> regp]
  /\ source_sequence \in SourceSequences(1)
  /\ source_length = [b \in Batch |-> 1]
  /\ Constructed(MaxCalls)

SpecFacade == InitFacade /\ [][Next]_vars

\* encoders over the embedding and projection configurations
InitEmb ==
  /\ mode \in {"train", "eval", "infer"}
  /\ \E tied \in BOOLEAN, emb \in {1, 2}, core_units \in {1, 2},
        last_units \in {1, 2}, emb_keep \in {FullKeepProb, 50} :
       params = Params(AbsentRegularizer, NoKey, "float32", emb, 2,
                       core_units, last_units, <<>>, FixedSeeds, 0, FALSE,
                       tied, emb_keep)
  /\ model_params = NoModelParams
  /\ source_sequence \in SourceSequences(1)
  /\ source_length = [b \in Batch |-> 1]
  /\ Constructed(1)

SpecEmb == InitEmb /\ [][Next]_vars

\* encoders called repeatedly on one batch of ground truth, over the
\* embedding and the cell dropout rates
InitRepeat ==
  /\ mode \in {"train", "eval"}
  /\ \E keeps \in {<<FullKeepProb, FullKeepProb>>, <<50, FullKeepProb>>,
                    <<FullKeepProb, 50>>} :
       params = [Params(AbsentRegularizer, NoKey, "float32", 1, 2, 1, 1,
                        <<>>, FixedSeeds, 0, FALSE, FALSE, keeps[1])
                 EXCEPT !.encoder_dp_input_keep_prob = keeps[2]]
  /\ model_params = NoModelParams
  /\ source_sequence \in SourceSequences(MaxTime)
  /\ source_length = [b \in Batch |-> MaxTime]
  /\ Constructed(MaxCalls)

SpecRepeat == InitRepeat /\ [][Next]_vars

\* encoders over the depth of the cell stack, the weight tying and the width
\* of the last cell, with different dropout rates for body and last cells
InitCells ==
  /\ mode \in {"train", "eval"}
  /\ \E layers \in 1..MaxLayers, tied \in BOOLEAN, last_units \in {1, 2} :
       params = [Params(AbsentRegularizer, NoKey, "float32", 2, layers, 1,
                        last_units, <<>>, FixedSeeds, 0, FALSE, tied,
                        FullKeepProb)
                 EXCEPT !.encoder_dp_input_keep_prob = 90,
                        !.encoder_dp_output_keep_prob = 80,
                        !.encoder_last_input_keep_prob = 70,
                        !.encoder_last_output_keep_prob = 60]
  /\ model_params = NoModelParams
  /\ source_sequence \in SourceSequences(1)
  /\ source_length = [b \in Batch |-> 1]
  /\ Constructed(1)

SpecCells == InitCells /\ [][Next]_vars

\* ------------------------------------------------------------------ claims
TrainOrEval == mode = "train" \/ mode = "eval"
AllEmitted == \A b \in Batch : emitted[b]
Stepping == pc = "run" /\ ~reduce_all(finished)

\* C1: in infer mode, when no batch element ever emits end_token, the decode
\* loop runs exactly num_tokens_gen steps and the output has exactly
\* num_tokens_gen timesteps.
C1_InferRunsNumTokensGenSteps ==
  (mode = "infer" /\ pc = "done" /\ \A b \in Batch : ~emitted[b])
    => (time = num_tokens_gen /\ output_dict.timesteps = num_tokens_gen)

\* C2: in infer mode the loop stops exactly at the first step after which
\* every batch element has emitted end_token at least once, or at the step
\* bound: while it runs, "all finished" holds exactly when all elements have
\* emitted or the bound is reached, one row is written per step, and the
\* output has as many timesteps as steps were made.
C2_InferStopRule ==
  /\ (mode = "infer" /\ pc = "run")
       => /\ outputs_size = time
          /\ reduce_all(finished)
               <=> (AllEmitted \/ time >= maximum_iterations)
  /\ (mode = "infer" /\ pc = "done")
       => /\ output_dict.timesteps = time
          /\ AllEmitted \/ time = maximum_iterations

C2_Witness ==
  /\ mode = "infer" /\ pc = "done" /\ AllEmitted
  /\ output_dict.timesteps < maximum_iterations
  /\ \E b1 \in Batch, b2 \in Batch :
       /\ sequence_lengths[b1] < sequence_lengths[b2]
       /\ output_dict.timesteps = sequence_lengths[b2]

\* C3: in train and eval mode the loop makes exactly
\* max-over-batch(source_length) steps and every step writes a logits row
\* for every batch element, those past their own length included.
C3_TrainLoopLength ==
  (TrainOrEval /\ pc \in {"run", "done"})
    => /\ outputs_size = time
       /\ time <= reduce_max(source_length)
       /\ reduce_all(finished) <=> time >= reduce_max(source_length)
       /\ pc = "done" => output_dict.timesteps = reduce_max(source_length)
       /\ time > 0 => \A b \in Batch : last_outputs[b].rnn_output # ZeroRow

C3_Witness ==
  /\ TrainOrEval /\ pc = "done"
  /\ \E b \in Batch :
       /\ source_length[b] < output_dict.timesteps
       /\ last_outputs[b].rnn_output # ZeroRow

\* C4: in train and eval mode without scheduled sampling, the input of every
\* step t is, for every batch element, the embedding of the ground-truth
\* token at position t, whatever the model produced before.
C4_TeacherForcing ==
  (TrainOrEval /\ ~schedule_learning /\ Stepping)
    => \A b \in Batch :
         inputs[b] =
           Vectors(embedding_lookup(enc_emb_w, source_sequence[b][time + 1]))

C4_Witness ==
  /\ TrainOrEval /\ ~schedule_learning /\ Stepping /\ time > 0
  /\ \E b \in Batch :
       /\ last_outputs[b].sample_id # source_sequence[b][time + 1]
       /\ embedding_lookup(enc_emb_w, last_outputs[b].sample_id)
            # embedding_lookup(enc_emb_w, source_sequence[b][time + 1])

\* C5: in infer mode the input of step 0 is the embedding of the element's
\* seed token and the input of every later step is the embedding of the
\* element's argmax token of the step before; the source sequence is not
\* the input.
C5_InferInputs ==
  (mode = "infer" /\ Stepping)
    => \A b \in Batch :
         inputs[b] =
           Vectors(embedding_lookup(enc_emb_w,
                     IF time = 0 THEN params.seed_tokens[b]
                     ELSE last_outputs[b].sample_id))

C5_Witness ==
  /\ mode = "infer" /\ Stepping /\ time > 0
  /\ \E b \in Batch :
       /\ last_outputs[b].sample_id # source_sequence[b][1]
       /\ last_outputs[b].sample_id # params.seed_tokens[b]
       /\ embedding_lookup(enc_emb_w, last_outputs[b].sample_id)
            # embedding_lookup(enc_emb_w, source_sequence[b][1])

\* C6: in train and eval mode with scheduled sampling and sampling
\* probability 1.0, the decode runs and the input of every step after step 0
\* is the embedding of the model's own argmax token of the step before.
C6_ScheduledFeedsOwnArgmax ==
  (TrainOrEval /\ schedule_learning /\ sampling_prob = 100 /\ calls > 0)
    => /\ pc # "error"
       /\ (Stepping /\ time > 0)
            => \A b \in Batch :
                 inputs[b] =
                   Vectors(embedding_lookup(enc_emb_w,
                                            last_outputs[b].sample_id))

\* C7: in infer mode an element that has emitted end_token keeps being
\* stepped while the loop runs: its state has absorbed every step made, a
\* logits row was written for it at the last step, and its argmax is fed
\* back as its next input.
C7_FinishedStillStepped ==
  (mode = "infer" /\ pc \in {"run", "done"})
    => \A b \in Batch :
         (emitted[b] /\ sequence_lengths[b] < time)
           => /\ state[b] = time
              /\ last_outputs[b].rnn_output # ZeroRow
              /\ Stepping =>
                   inputs[b] =
                     Vectors(embedding_lookup(enc_emb_w,
                                              last_outputs[b].sample_id))

C7_Witness ==
  /\ mode = "infer" /\ Stepping
  /\ \E b \in Batch :
       /\ emitted[b]
       /\ sequence_lengths[b] + 2 <= time
       /\ state[b] = time
       /\ last_outputs[b].sample_id # params.end_token

\* C8: the setup is performed in the first encode call only: after any call
\* the encoder is compiled, and a call after the first performs no setup
\* step.
C8_SetupOnlyInFirstCall ==
  /\ calls >= 1 => compiled
  /\ calls >= 2 => setup_log = {}

Built == calls > 0 /\ error # "KeyError"

\* t is x after embedding dropout with keep probability keep_prob
IsDropoutOf(t, x, keep_prob) ==
  /\ Len(t) = Len(x)
  /\ \A i \in 1..Len(x) :
       /\ Len(t[i]) = Len(x[i])
       /\ \A j \in 1..Len(x[i]) :
            IF keep_prob = FullKeepProb THEN t[i][j] = x[i][j]
            ELSE t[i][j] \in {0, (x[i][j] * FullKeepProb) \div keep_prob}

IsMatrix(x, rows, cols) ==
  Len(x) = rows /\ \A i \in 1..rows : Len(x[i]) = cols

\* C9: with weight tying the table every lookup reads equals the transpose
\* of the projection kernel element for element and no independent
\* embedding parameter exists; without it an independent
\* vocab_size x emb_size parameter is the table.
C9_TableIsKernelTranspose ==
  Built =>
    IF weight_tied
    THEN enc_emb_w = Transpose(kernel) /\ EncoderEmbeddingMatrix = NoVar
    ELSE /\ IsMatrix(EncoderEmbeddingMatrix, vocab_size, emb_size)
         /\ enc_emb_w = EncoderEmbeddingMatrix

\* C9 as amended: the table is the embedding dropout of the transposed
\* kernel (tied) or of the independent parameter (untied); it equals it
\* element for element when embedding dropout is inactive.
C9_TableIsDropoutOfKernelTranspose ==
  Built =>
    IF weight_tied
    THEN /\ EncoderEmbeddingMatrix = NoVar
         /\ IsMatrix(enc_emb_w, vocab_size, emb_size)
         /\ IsDropoutOf(enc_emb_w, Transpose(kernel), emb_keep_prob)
    ELSE /\ IsMatrix(EncoderEmbeddingMatrix, vocab_size, emb_size)
         /\ IsDropoutOf(enc_emb_w, EncoderEmbeddingMatrix, emb_keep_prob)

C9_Witness ==
  /\ Built /\ weight_tied /\ mode = "train"
  /\ emb_keep_prob # FullKeepProb
  /\ enc_emb_w # Transpose(kernel)
  /\ \E i \in 1..vocab_size, j \in 1..emb_size : enc_emb_w[i][j] # 0

\* C10: weight tying with emb_size different from the output width of the
\* last cell is rejected by the first encode call before any step of the
\* cell stack.
C10_TiedMismatchRejected ==
  (weight_tied /\ emb_size # CellOutputDim(FwdCells) /\ Built)
    => /\ pc = "error"
       /\ error = "ValueError"
       /\ time = 0
       /\ outputs_size = 0
       /\ state = zero_state

C10_Witness ==
  /\ weight_tied /\ emb_size # CellOutputDim(FwdCells)
  /\ pc = "error" /\ error = "ValueError" /\ compiled

\* a second or later run over the same ground truth is under way or over,
\* with sampling_prob 0 and the variable values of the run before it
RepeatedRun ==
  /\ TrainOrEval /\ sampling_prob = 0
  /\ pc \in {"run", "done"}
  /\ prev_run.done
  /\ prev_run.kernel = kernel
  /\ prev_run.matrix = EncoderEmbeddingMatrix

\* every row of logits of this run is the previous run's row of that step
SameLogits ==
  /\ Len(run_logits) <= Len(prev_run.logits)
  /\ \A t \in 1..Len(run_logits) : \A b \in Batch :
       run_logits[t][b] = prev_run.logits[t][b]

\* the configured keep probabilities that are in force in train mode
KeepProbs ==
  {params.encoder_emb_keep_prob, params.encoder_dp_input_keep_prob,
   params.encoder_dp_output_keep_prob, params.encoder_last_input_keep_prob,
   params.encoder_last_output_keep_prob}

\* C11: with sampling_prob 0, two encode runs over identical ground truth,
\* lengths and parameters produce identical logits at every step and batch
\* element, in train mode and in eval mode.
C11_TeacherForcingDeterministic ==
  RepeatedRun => SameLogits

\* C11 as amended: with sampling_prob 0, two encode runs over identical
\* ground truth, lengths and parameters produce identical logits at every
\* step and batch element in eval mode, and in train mode when every keep
\* probability is 1.
C11_DeterministicWithoutDropout ==
  (RepeatedRun /\ (mode = "eval" \/ KeepProbs = {FullKeepProb}))
    => SameLogits

C11_Witness ==
  /\ RepeatedRun /\ mode = "eval" /\ pc = "done"
  /\ params.encoder_emb_keep_prob # FullKeepProb
  /\ Len(run_logits) = MaxTime
  /\ run_logits = prev_run.logits
  /\ \E t \in 1..Len(run_logits) : run_logits[t] # run_logits[1]

\* the owning model provides a regularizer
ModelProvidesRegularizer ==
  model_params.present /\ model_params.regularizer.kind # "absent"

\* the first encode call
FirstCall == calls = 0 /\ calls' = 1

\* C12: on the first encode call, an encoder without a regularizer whose
\* model provides one ends with the model's regularizer and its parameters
\* and setup completes without error; an encoder with its own regularizer
\* keeps it; the regularizer is wrapped exactly when dtype is 'mixed' at the
\* time of the first call.
C12_FirstCallCopiesDown ==
  [][FirstCall =>
       /\ (params.regularizer.kind = "absent" /\ ModelProvidesRegularizer)
            => /\ error' # "KeyError"
               /\ compiled'
               /\ params'.regularizer.kind = "instance"
               /\ params'.regularizer.factory = "model"
               /\ params'.regularizer_params
                    = model_params.regularizer_params
               /\ params'.regularizer.args = model_params.regularizer_params
       /\ (params.regularizer.kind # "absent")
            => /\ params'.regularizer.factory = params.regularizer.factory
               /\ params'.regularizer_params = params.regularizer_params
       /\ (params'.regularizer.kind # "absent")
            => (params'.regularizer.wrapped <=> params.dtype = "mixed")]_vars

\* C13: the built cell stack has exactly encoder_layers cells:
\* encoder_layers - 1 body cells built from core_cell_params with the body
\* dropout rates, then one last cell with the last-layer dropout rates whose
\* spec is last_cell_params when weight_tied is true and core_cell_params
\* otherwise.
C13_CellStackShape ==
  Built =>
    LET n == params.encoder_layers
    IN /\ Len(fwd_cells) = n
       /\ \A i \in 1..(n - 1) :
            /\ fwd_cells[i].cell_params = params.core_cell_params
            /\ fwd_cells[i].dp_input_keep_prob = dp_input_keep_prob
            /\ fwd_cells[i].dp_output_keep_prob = dp_output_keep_prob
       /\ fwd_cells[n].dp_input_keep_prob = last_input_keep_prob
       /\ fwd_cells[n].dp_output_keep_prob = last_output_keep_prob
       /\ weight_tied => fwd_cells[n].cell_params = params.last_cell_params
       /\ ~weight_tied => fwd_cells[n].cell_params = params.core_cell_params

C13_Witness ==
  /\ pc = "done" /\ mode = "train" /\ weight_tied
  /\ params.encoder_layers = MaxLayers
  /\ Len(fwd_cells) = MaxLayers
  /\ params.last_cell_params # params.core_cell_params
  /\ fwd_cells[MaxLayers].cell_params = params.last_cell_params
  /\ fwd_cells[1].dp_input_keep_prob
       # fwd_cells[MaxLayers].dp_input_keep_prob

====
